---- MODULE Spec2Model ----
(***************************************************************************)
(* The macOS application delegate of tao                                   *)
(* (src/platform_impl/macos/app_delegate.rs): the lazily registered        *)
(* Objective-C class TaoAppDelegate, the per-instance auxiliary state kept *)
(* behind the "auxState" ivar, the RefCell-guarded accessor, and the       *)
(* forwarders bound to the host's notifications.                           *)
(***************************************************************************)
EXTENDS Integers, Sequences, FiniteSets, TLC

----------------------------------------------------------------------------
(* Bounds of the model *)

\* delegate objects the host may create in one run
MaxInst == 2
\* threads that may dereference APP_DELEGATE_CLASS
NumThreads == 3
\* opaque event / reply / sender identifiers range over 1..MaxId
MaxId == 2
\* writes the engine performs through RefMut handles
MaxWrites == 1
\* times the dealloc hook may be invoked on one object when the caller
\* breaks the once-only contract
MaxDealloc == 2
\* times a host that repeats the will-terminate notification delivers it
MaxTerminate == 2

----------------------------------------------------------------------------
(* Program constants *)

kInternetEventClass == 1196773964
kAEGetURL == 1196773964
AUX_DELEGATE_STATE_NAME == "auxState"

\* objc::runtime::BOOL and its two canonical values
NO == 0
YES == 1
BOOL == {NO, YES}

\* crate::platform::macos::ActivationPolicy
ActivationPolicy == {"Regular", "Accessory", "Prohibited"}

\* pub struct AuxDelegateState
AuxDelegateState ==
  [activation_policy : ActivationPolicy,
   create_default_menu : BOOLEAN,
   activate_ignoring_other_apps : BOOLEAN]

Threads == 1..NumThreads
\* the host's delivery thread
MainThread == 1
\* object identities handed out by alloc, in order of allocation
Inst == 1..MaxInst
\* heap addresses Box::new may return; NULL is the zeroed ivar
Addr == 1..MaxInst
NULL == 0
OpaqueIds == 1..MaxId

\* value of the lazy static before its initializer has completed
NoClass == [name |-> "", superclass |-> "", class_methods |-> {}, methods |-> {}, ivars |-> {}]

\* the selectors and the functions bound to them in the ClassDecl
DelegateClassMethods == {[sel |-> "new", imp |-> "new"]}
DelegateMethods ==
  {[sel |-> "dealloc", imp |-> "dealloc"],
   [sel |-> "applicationDidFinishLaunching:", imp |-> "did_finish_launching"],
   [sel |-> "applicationWillTerminate:", imp |-> "application_will_terminate"],
   [sel |-> "applicationWillBecomeActive:", imp |-> "application_will_become_active"],
   [sel |-> "handleEvent:withReplyEvent:", imp |-> "application_handle_apple_event"],
   [sel |-> "applicationShouldHandleReopen:hasVisibleWindows:",
    imp |-> "application_should_handle_reopen"]}

\* the class the initializer of APP_DELEGATE_CLASS declares and registers
TaoAppDelegate ==
  [name |-> "TaoAppDelegate", superclass |-> "NSResponder",
   class_methods |-> DelegateClassMethods, methods |-> DelegateMethods,
   ivars |-> {AUX_DELEGATE_STATE_NAME}]

\* the function the method table of class c binds to selector s ("" if none)
Imp(c, s) ==
  IF \E m \in c.methods : m.sel = s
    THEN (CHOOSE m \in c.methods : m.sel = s).imp
    ELSE ""

----------------------------------------------------------------------------
(* State *)

VARIABLES
  classes,             \* names of the classes registered with the ObjC runtime
  once,                \* state of the Once behind the lazy static
  APP_DELEGATE_CLASS,  \* the lazy static's value
  initRuns,            \* times the initializer body has been entered
  pc,                  \* per thread: where it is in a dereference, or how it ended
  got,                 \* per thread: the class handle its call dereference returned
  nAlloc,              \* objects created so far; object k is the k-th created
  deallocCalls,        \* per object: times the dealloc hook ran on it
  auxState,            \* per object: the "auxState" ivar
  heap,                \* per address: the RefCell of AuxDelegateState stored there
  released,            \* per object: times the box allocated for it was freed
  refs,                \* per object: RefMut handles obtained through it and not dropped
  mutated,             \* per object: whether a RefMut obtained through it was written
  nWrites,             \* writes performed through RefMut handles
  eventHandlers,       \* NSAppleEventManager's handler table
  lifecycle,           \* AppState's view of the lifecycle
  delivered,           \* per notification selector: times the host delivered it
  launchedCalls,       \* calls of AppState::launched
  exitCalls,           \* calls of AppState::exit
  call                 \* the forwarder invocation the host has made and not yet
                       \* taken the result of, with its outcome

vars ==
  <<classes, once, APP_DELEGATE_CLASS, initRuns, pc, got, nAlloc, deallocCalls,
    auxState, heap, released, refs, mutated, nWrites, eventHandlers, lifecycle,
    delivered, launchedCalls, exitCalls, call>>

classVars == <<classes, once, APP_DELEGATE_CLASS, initRuns, got>>
objVars == <<nAlloc, deallocCalls, auxState, heap, released, eventHandlers>>
cellVars == <<refs, mutated, nWrites>>
appVars == <<lifecycle, delivered, launchedCalls, exitCalls>>

\* selectors of the two lifecycle notifications the host orders
DidFinishSel == "applicationDidFinishLaunching:"
WillTerminateSel == "applicationWillTerminate:"

\* memory no Box currently owns
FreeCell ==
  [allocated |-> FALSE, owner |-> NULL, borrow |-> 0,
   value |-> [activation_policy |-> "Regular", create_default_menu |-> FALSE,
              activate_ignoring_other_apps |-> FALSE]]

\* the record of an invocation: the function, its receiver, the arguments it
\* received, the arguments it handed to external code, what the external code
\* answered and what the function returned (<<>> where there is none)
Op(op, this, recv, passed, handled, ret) ==
  [op |-> op, this |-> this, recv |-> recv, passed |-> passed,
   handled |-> handled, ret |-> ret]
Plain(op, this) == Op(op, this, <<>>, <<>>, <<>>, <<>>)

\* no forwarder invocation is waiting for the host to take its result
NoCall == Plain("", NULL)

Init ==
  /\ classes \in {{"NSResponder", "NSAppleEventManager"},
                  {"NSResponder", "NSAppleEventManager", "TaoAppDelegate"}}
  /\ once = "INCOMPLETE"
  /\ APP_DELEGATE_CLASS = NoClass
  /\ initRuns = 0
  /\ pc = [t \in Threads |-> "idle"]
  /\ got = [t \in Threads |-> NoClass]
  /\ nAlloc = 0
  /\ deallocCalls = [i \in Inst |-> 0]
  /\ auxState = [i \in Inst |-> NULL]
  /\ heap = [a \in Addr |-> FreeCell]
  /\ released = [i \in Inst |-> 0]
  /\ refs = [i \in Inst |-> 0]
  /\ mutated = [i \in Inst |-> FALSE]
  /\ nWrites = 0
  /\ eventHandlers = {}
  /\ lifecycle = "NotLaunched"
  /\ delivered = [s \in {DidFinishSel, WillTerminateSel} |-> 0]
  /\ launchedCalls = 0
  /\ exitCalls = 0
  /\ call = NoCall

\* the process is still executing: the delivery thread has neither panicked
\* nor been aborted
Halted == {"panic_unwrap", "panic_poisoned", "panic_borrow", "aborted"}
Running == pc[MainThread] \notin Halted

\* the delivery thread is between calls
MainIdle == Running /\ pc[MainThread] = "idle" /\ call = NoCall

\* object i exists and the dealloc hook has not run on it
Live(i) == i <= nAlloc /\ deallocCalls[i] = 0
\* the dealloc hook has run on object i
Dead(i) == i <= nAlloc /\ deallocCalls[i] > 0

----------------------------------------------------------------------------
(* Class registration: lazy_static! APP_DELEGATE_CLASS *)

\* a declaration that goes ahead although the runtime already holds a class
\* of that name
ClassDecl_new_shadowing(name, superclass) ==
  <<[TaoAppDelegate EXCEPT !.name = name, !.superclass = superclass]>>

\* ClassDecl::new(name, superclass): None when the runtime already holds a
\* class of that name
ClassDecl_new(name, superclass) ==
  IF name \in classes THEN <<>> ELSE <<[TaoAppDelegate EXCEPT !.name = name, !.superclass = superclass]>>

\* a lazy static whose initializer is not serialised: every thread that
\* finds the value missing runs the body
Deref_unsynchronised(t) ==
  /\ Running
  /\ pc[t] = "idle"
  /\ IF once = "COMPLETE"
       THEN /\ got' = [got EXCEPT ![t] = APP_DELEGATE_CLASS]
            /\ UNCHANGED <<once, pc, initRuns>>
       ELSE /\ once' = "RUNNING"
            /\ pc' = [pc EXCEPT ![t] = "init"]
            /\ initRuns' = initRuns + 1
            /\ UNCHANGED got
  /\ UNCHANGED <<classes, APP_DELEGATE_CLASS, objVars, cellVars, appVars, call>>

\* Deref of the lazy static by thread t: Once::call_once
Deref(t) ==
  /\ Running
  /\ pc[t] = "idle"
  /\ CASE once = "COMPLETE" ->
            /\ got' = [got EXCEPT ![t] = APP_DELEGATE_CLASS]
            /\ UNCHANGED <<once, pc, initRuns>>
       [] once = "INCOMPLETE" ->
            /\ once' = "RUNNING"
            /\ pc' = [pc EXCEPT ![t] = "init"]
            /\ initRuns' = initRuns + 1
            /\ UNCHANGED got
       [] once = "RUNNING" ->
            /\ pc' = [pc EXCEPT ![t] = "wait"]
            /\ UNCHANGED <<once, got, initRuns>>
       [] once = "POISONED" ->
            /\ pc' = [pc EXCEPT ![t] = "panic_poisoned"]
            /\ UNCHANGED <<once, got, initRuns>>
  /\ UNCHANGED <<classes, APP_DELEGATE_CLASS, objVars, cellVars, appVars, call>>

\* the initializer body, run by the thread that won the Once
Initializer(t) ==
  /\ Running
  /\ pc[t] = "init"
  /\ LET decl == ClassDecl_new("TaoAppDelegate", "NSResponder") IN
       IF decl = <<>>
         THEN \* unwrap() of None
              /\ once' = "POISONED"
              /\ pc' = [pc EXCEPT ![t] = "panic_unwrap"]
              /\ UNCHANGED <<classes, APP_DELEGATE_CLASS, got>>
         ELSE \* decl.register()
              /\ classes' = classes \cup {decl[1].name}
              /\ APP_DELEGATE_CLASS' = decl[1]
              /\ once' = "COMPLETE"
              /\ got' = [got EXCEPT ![t] = decl[1]]
              /\ pc' = [pc EXCEPT ![t] = "idle"]
  /\ UNCHANGED <<initRuns, objVars, cellVars, appVars, call>>

\* a thread blocked in call_once resumes when the initializer has ended
Wake(t) ==
  /\ Running
  /\ pc[t] = "wait"
  /\ once \in {"COMPLETE", "POISONED"}
  /\ IF once = "COMPLETE"
       THEN /\ got' = [got EXCEPT ![t] = APP_DELEGATE_CLASS]
            /\ pc' = [pc EXCEPT ![t] = "idle"]
       ELSE /\ pc' = [pc EXCEPT ![t] = "panic_poisoned"]
            /\ UNCHANGED got
  /\ UNCHANGED <<classes, once, APP_DELEGATE_CLASS, initRuns, objVars, cellVars,
                 appVars, call>>

----------------------------------------------------------------------------
(* Instance lifecycle hooks *)

\* new() with the default-menu flag left off
NewAuxState_menu_off ==
  [activation_policy |-> "Regular", create_default_menu |-> FALSE,
   activate_ignoring_other_apps |-> TRUE]

\* the record new() boxes
NewAuxState ==
  [activation_policy |-> "Regular", create_default_menu |-> TRUE,
   activate_ignoring_other_apps |-> TRUE]

\* RefCell::new(value), boxed for object this
RefCell_new(value, this) ==
  [allocated |-> TRUE, owner |-> this, borrow |-> 0, value |-> value]

\* one statically allocated cell in place of a Box per object
BoxNewAddrs_static == {a \in Addr : \A b \in Addr : a <= b}

\* addresses some Box has owned so far
UsedAddrs == {auxState[i] : i \in 1..nAlloc}

\* the addresses Box::new may return: any block no Box owns.  Blocks never
\* handed out before are interchangeable, so the lowest stands for them all
BoxNewAddrs ==
  {a \in Addr : /\ ~heap[a].allocated
                /\ \/ a \in UsedAddrs
                   \/ \A b \in Addr \ UsedAddrs : a <= b}

\* -[NSAppleEventManager setEventHandler:andSelector:forEventClass:andEventID:]
\* on table tbl: one entry per (event class, event id)
setEventHandler(tbl, handler, selector, eventClass, eventID) ==
  {e \in tbl : ~(e.eventClass = eventClass /\ e.eventID = eventID)}
    \cup {[eventClass |-> eventClass, eventID |-> eventID,
           handler |-> handler, selector |-> selector]}

\* a registration that leaves an existing URL-open handler in place
RegisterUrlHandler_if_absent(this) ==
  IF \E e \in eventHandlers :
       e.eventClass = kInternetEventClass /\ e.eventID = kAEGetURL
    THEN eventHandlers
    ELSE setEventHandler(eventHandlers, this, "handleEvent:withReplyEvent:",
                         kInternetEventClass, kAEGetURL)

\* the registration new() performs for the object it created
RegisterUrlHandler(this) ==
  setEventHandler(eventHandlers, this, "handleEvent:withReplyEvent:",
                  kInternetEventClass, kAEGetURL)

\* the entries of the handler table for the URL-open event
UrlHandlers ==
  {e \in eventHandlers : e.eventClass = kInternetEventClass /\ e.eventID = kAEGetURL}

\* an allocation hook that registers the object as URL-open handler and
\* returns it with the ivar still zeroed
new_unboxed(this) ==
  /\ MainIdle
  /\ got[MainThread] # NoClass
  /\ nAlloc < MaxInst
  /\ this = nAlloc + 1
  /\ eventHandlers' = RegisterUrlHandler(this)
  /\ nAlloc' = nAlloc + 1
  /\ UNCHANGED <<classVars, pc, deallocCalls, auxState, heap, released, cellVars,
                 appVars, call>>

\* extern "C" fn new(class, _) -> id, creating object this
new(this) ==
  /\ MainIdle
  /\ got[MainThread] # NoClass
  /\ \E m \in got[MainThread].class_methods : m.sel = "new" /\ m.imp = "new"
  /\ nAlloc < MaxInst
  /\ this = nAlloc + 1
  /\ \E a \in BoxNewAddrs :
       /\ heap' = [heap EXCEPT ![a] = RefCell_new(NewAuxState, this)]
       /\ auxState' = [auxState EXCEPT ![this] = a]
  /\ eventHandlers' = RegisterUrlHandler(this)
  /\ nAlloc' = nAlloc + 1
  /\ UNCHANGED <<classVars, pc, deallocCalls, released, cellVars, appVars, call>>

\* a dealloc hook that also removes the object's URL-open registration
dealloc_unregistering(this) ==
  /\ MainIdle
  /\ this <= nAlloc
  /\ deallocCalls[this] < MaxDealloc
  /\ heap[auxState[this]].allocated
  /\ heap' = [heap EXCEPT ![auxState[this]] = FreeCell]
  /\ released' = [released EXCEPT ![heap[auxState[this]].owner] = @ + 1]
  /\ deallocCalls' = [deallocCalls EXCEPT ![this] = @ + 1]
  /\ eventHandlers' = {e \in eventHandlers : e.handler # this}
  /\ UNCHANGED <<classVars, pc, nAlloc, auxState, cellVars, appVars, call>>

\* a dealloc hook that zeroes the ivar after it has freed the Box
dealloc_clearing(this) ==
  /\ MainIdle
  /\ this <= nAlloc
  /\ deallocCalls[this] < MaxDealloc
  /\ heap[auxState[this]].allocated
  /\ heap' = [heap EXCEPT ![auxState[this]] = FreeCell]
  /\ released' = [released EXCEPT ![heap[auxState[this]].owner] = @ + 1]
  /\ deallocCalls' = [deallocCalls EXCEPT ![this] = @ + 1]
  /\ auxState' = [auxState EXCEPT ![this] = NULL]
  /\ UNCHANGED <<classVars, pc, nAlloc, eventHandlers, cellVars, appVars, call>>

\* a dealloc hook that reads the ivar and never rebuilds the Box
dealloc_leaking(this) ==
  /\ MainIdle
  /\ this <= nAlloc
  /\ deallocCalls[this] < MaxDealloc
  /\ deallocCalls' = [deallocCalls EXCEPT ![this] = @ + 1]
  /\ UNCHANGED <<classVars, pc, nAlloc, auxState, heap, released, eventHandlers,
                 cellVars, appVars, call>>

\* extern "C" fn dealloc(this, _): Box::from_raw(state_ptr), dropped at once.
\* The block at state_ptr is handed to the allocator whoever owns it now; when
\* no Box owns it the free is undefined behaviour: the allocator aborts the
\* process or takes the block a second time.
dealloc(this) ==
  /\ MainIdle
  /\ this <= nAlloc
  /\ deallocCalls[this] < MaxDealloc
  /\ LET state_ptr == auxState[this] IN
       IF heap[state_ptr].allocated
         THEN /\ heap' = [heap EXCEPT ![state_ptr] = FreeCell]
              /\ released' = [released EXCEPT ![heap[state_ptr].owner] = @ + 1]
              /\ UNCHANGED pc
         ELSE \E outcome \in {"abort", "freed again"} :
                /\ pc' = [pc EXCEPT ![MainThread] =
                            IF outcome = "abort" THEN "aborted" ELSE @]
                /\ released' = [released EXCEPT ![this] =
                                  IF outcome = "abort" THEN @ ELSE @ + 1]
                /\ UNCHANGED heap
  /\ deallocCalls' = [deallocCalls EXCEPT ![this] = @ + 1]
  /\ UNCHANGED <<classVars, nAlloc, auxState, eventHandlers, cellVars, appVars, call>>

----------------------------------------------------------------------------
(* Accessor *)

\* what a read of the RefCell at address ptr may yield: the cell stored
\* there, or, when no Box owns the block, indeterminate contents
Load(ptr) ==
  IF heap[ptr].allocated
    THEN {heap[ptr]}
    ELSE {[FreeCell EXCEPT !.borrow = b] : b \in {0, -1}}

\* the heap after cell is written to address ptr; a write to a block no Box
\* owns leaves no cell behind
Store(ptr, cell) ==
  IF heap[ptr].allocated THEN [heap EXCEPT ![ptr] = cell] ELSE heap

\* a borrow that does not look at the borrow flag
borrow_mut_unchecked(cell) ==
  <<[cell EXCEPT !.borrow = -1]>>

\* RefCell::borrow_mut on cell: <<>> when it is already borrowed, else the
\* cell with the exclusive borrow recorded
borrow_mut(cell) ==
  IF cell.borrow # 0 THEN <<>> ELSE <<[cell EXCEPT !.borrow = -1]>>

\* pub unsafe fn get_aux_state_mut(this) -> RefMut, called by the engine
get_aux_state_mut(this) ==
  /\ MainIdle
  /\ Live(this)
  /\ \E cell \in Load(auxState[this]) :
       LET ptr == auxState[this]
           res == borrow_mut(cell) IN
         IF res = <<>>
           THEN \* panics: already borrowed
                /\ pc' = [pc EXCEPT ![MainThread] = "panic_borrow"]
                /\ UNCHANGED <<heap, refs>>
           ELSE /\ heap' = Store(ptr, res[1])
                /\ refs' = [refs EXCEPT ![this] = @ + 1]
                /\ UNCHANGED pc
  /\ UNCHANGED <<classVars, nAlloc, deallocCalls, auxState, released, eventHandlers,
                 mutated, nWrites, appVars, call>>

\* the engine changes field f of the record to v through a RefMut it holds
\* on this
WriteAux(this, f, v) ==
  /\ MainIdle
  /\ Live(this)
  /\ refs[this] > 0
  /\ nWrites < MaxWrites
  /\ heap[auxState[this]].value[f] # v
  /\ heap' = Store(auxState[this], [heap[auxState[this]] EXCEPT !.value[f] = v])
  /\ mutated' = [mutated EXCEPT ![this] = TRUE]
  /\ nWrites' = nWrites + 1
  /\ UNCHANGED <<classVars, pc, nAlloc, deallocCalls, auxState, released, eventHandlers,
                 refs, appVars, call>>

\* a drop that puts the record back to what new() boxed
DropRefMut_resetting(this) ==
  /\ MainIdle
  /\ Live(this)
  /\ refs[this] > 0
  /\ heap' = Store(auxState[this],
                   [heap[auxState[this]] EXCEPT !.borrow = @ + 1, !.value = NewAuxState])
  /\ refs' = [refs EXCEPT ![this] = @ - 1]
  /\ UNCHANGED <<classVars, pc, nAlloc, deallocCalls, auxState, released, eventHandlers,
                 mutated, nWrites, appVars, call>>

\* the engine drops a RefMut it holds on this: the borrow is given back
DropRefMut(this) ==
  /\ MainIdle
  /\ Live(this)
  /\ refs[this] > 0
  /\ heap' = Store(auxState[this], [heap[auxState[this]] EXCEPT !.borrow = @ + 1])
  /\ refs' = [refs EXCEPT ![this] = @ - 1]
  /\ UNCHANGED <<classVars, pc, nAlloc, deallocCalls, auxState, released, eventHandlers,
                 mutated, nWrites, appVars, call>>

----------------------------------------------------------------------------
(* The external lifecycle state machine (app_state.rs) *)

\* AppState::launched(app_delegate), the accessor reading cell: it borrows the
\* deferred aux state to apply it and gives the borrow back, and records the
\* launch: the lifecycle state it leaves, or <<>> when the accessor panics
AppState_launched(cell) ==
  IF borrow_mut(cell) = <<>>
    THEN <<>>
    ELSE <<IF lifecycle = "NotLaunched" THEN "Launched" ELSE lifecycle>>

\* AppState::exit(): a second call changes nothing
AppState_exit ==
  IF lifecycle = "Launched" THEN "Terminated" ELSE lifecycle

----------------------------------------------------------------------------
(* Lifecycle forwarders.  Each leaves the host's own bookkeeping (delivered) *)
(* to the host action that invokes it.                                      *)

\* a launch forwarder that only traces and never reaches AppState::launched
did_finish_launching_silent(this) ==
  /\ call' = Plain("did_finish_launching", this)
  /\ UNCHANGED <<classVars, pc, objVars, cellVars, lifecycle, launchedCalls, exitCalls>>

\* a launch forwarder that takes a RefMut on the record itself and still
\* holds it when it calls AppState::launched
did_finish_launching_borrowing(this) ==
  /\ launchedCalls' = launchedCalls + 1
  /\ \E cell \in Load(auxState[this]) :
       LET held == borrow_mut(cell)
           res == IF held = <<>> THEN <<>> ELSE AppState_launched(held[1]) IN
         IF res = <<>>
           THEN /\ pc' = [pc EXCEPT ![MainThread] = "panic_borrow"]
                /\ UNCHANGED lifecycle
           ELSE /\ lifecycle' = res[1]
                /\ UNCHANGED pc
  /\ call' = Plain("did_finish_launching", this)
  /\ UNCHANGED <<classVars, objVars, cellVars, exitCalls>>

\* extern "C" fn did_finish_launching(this, _, _)
did_finish_launching(this) ==
  /\ launchedCalls' = launchedCalls + 1
  /\ \E cell \in Load(auxState[this]) :
       LET res == AppState_launched(cell) IN
         IF res = <<>>
           THEN /\ pc' = [pc EXCEPT ![MainThread] = "panic_borrow"]
                /\ UNCHANGED lifecycle
           ELSE /\ lifecycle' = res[1]
                /\ UNCHANGED pc
  /\ call' = Plain("did_finish_launching", this)
  /\ UNCHANGED <<classVars, objVars, cellVars, exitCalls>>

\* a terminate forwarder that only traces and never reaches AppState::exit
application_will_terminate_silent(this) ==
  /\ call' = Plain("application_will_terminate", this)
  /\ UNCHANGED <<classVars, pc, objVars, cellVars, lifecycle, launchedCalls, exitCalls>>

\* extern "C" fn application_will_terminate(_, _, _)
application_will_terminate(this) ==
  /\ exitCalls' = exitCalls + 1
  /\ lifecycle' = AppState_exit
  /\ call' = Plain("application_will_terminate", this)
  /\ UNCHANGED <<classVars, pc, objVars, cellVars, launchedCalls>>

\* an activation forwarder that reports the launch to AppState
application_will_become_active_launching(obj) ==
  /\ launchedCalls' = launchedCalls + 1
  /\ lifecycle' = IF lifecycle = "NotLaunched" THEN "Launched" ELSE lifecycle
  /\ call' = Plain("application_will_become_active", obj)
  /\ UNCHANGED <<classVars, pc, objVars, cellVars, exitCalls>>

\* extern "C" fn application_will_become_active(obj, sel, id)
application_will_become_active(obj) ==
  /\ call' = Plain("application_will_become_active", obj)
  /\ UNCHANGED <<classVars, pc, objVars, cellVars, lifecycle,
                 launchedCalls, exitCalls>>

\* a forwarder that hands the event and reply handles over in the wrong order
handle_apple_event_calls_swapped(_this, _cmd, event, _reply) ==
  << <<_this, _cmd, _reply, event>> >>

\* the calls of handle_apple_event the forwarder makes, each with its arguments
handle_apple_event_calls(_this, _cmd, event, _reply) ==
  << <<_this, _cmd, event, _reply>> >>

\* extern "C" fn application_handle_apple_event(_this, _cmd, event, _reply) -> BOOL;
\* handled is what the external handle_apple_event returns
application_handle_apple_event(_this, _cmd, event, _reply) ==
  /\ \E handled \in BOOL :
       call' = Op("application_handle_apple_event", _this,
                  <<_this, _cmd, event, _reply>>,
                  handle_apple_event_calls(_this, _cmd, event, _reply),
                  << handled >>, << handled >>)
  /\ UNCHANGED <<classVars, pc, objVars, cellVars, lifecycle,
                 launchedCalls, exitCalls>>

\* a forwarder that always reports visible windows
service_should_handle_reopen_calls_yes(obj, sel, id, has_visible_windows) ==
  << <<obj, sel, id, YES>> >>

\* the calls of service_should_handle_reopen the forwarder makes
service_should_handle_reopen_calls(obj, sel, id, has_visible_windows) ==
  << <<obj, sel, id, has_visible_windows>> >>

\* extern "C" fn application_should_handle_reopen(obj, sel, id, has_visible_windows) -> BOOL
application_should_handle_reopen(obj, sel, id, has_visible_windows) ==
  /\ \E handled \in BOOL :
       call' = Op("application_should_handle_reopen", obj,
                  <<obj, sel, id, has_visible_windows>>,
                  service_should_handle_reopen_calls(obj, sel, id, has_visible_windows),
                  << handled >>, << handled >>)
  /\ UNCHANGED <<classVars, pc, objVars, cellVars, lifecycle,
                 launchedCalls, exitCalls>>

----------------------------------------------------------------------------
(* The host: the Objective-C runtime and the application framework *)

\* the sender of the reopen request: the shared NSApplication object
NSApp == "NSApp"

BecomeActiveSel == "applicationWillBecomeActive:"
ReopenSel == "applicationShouldHandleReopen:hasVisibleWindows:"

\* the host may run the callbacks: the delivery thread is between calls
HostReady == MainIdle

\* the forwarder returns and the host takes its result
HostReturn ==
  /\ Running
  /\ call # NoCall
  /\ call' = NoCall
  /\ UNCHANGED <<classVars, pc, objVars, cellVars, appVars>>

\* the host's ordering guarantee for notification sel
HostOrder(sel) ==
  CASE sel = DidFinishSel -> delivered[DidFinishSel] = 0
    [] sel = WillTerminateSel ->
         delivered[DidFinishSel] = 1 /\ delivered[WillTerminateSel] = 0
    [] OTHER -> delivered[DidFinishSel] = 1

\* the host sends notification sel to delegate object this; the runtime
\* dispatches through the registered class's method table
Notify(this, sel) ==
  /\ HostReady
  /\ Live(this)
  /\ delivered' = IF sel \in DOMAIN delivered
                    THEN [delivered EXCEPT ![sel] = @ + 1] ELSE delivered
  /\ LET imp == Imp(APP_DELEGATE_CLASS, sel) IN
       \/ imp = "did_finish_launching" /\ did_finish_launching(this)
       \/ imp = "application_will_terminate" /\ application_will_terminate(this)
       \/ imp = "application_will_become_active" /\ application_will_become_active(this)

\* a notification delivered by a host that keeps its ordering guarantees
HostNotify(this, sel) ==
  /\ sel \in {DidFinishSel, WillTerminateSel, BecomeActiveSel}
  /\ HostOrder(sel)
  /\ Notify(this, sel)

\* the event manager dispatches a URL-open event to the registered handler
HostUrlEvent ==
  /\ HostReady
  /\ \E e \in UrlHandlers, event \in OpaqueIds, reply \in OpaqueIds :
       /\ Imp(APP_DELEGATE_CLASS, e.selector) = "application_handle_apple_event"
       /\ application_handle_apple_event(e.handler, e.selector, event, reply)
  /\ UNCHANGED delivered

\* the application asks its delegate whether to handle a reopen request
HostReopen ==
  /\ HostReady
  /\ \E this \in Inst, sender \in {NSApp}, flag \in BOOL :
       /\ Live(this)
       /\ Imp(APP_DELEGATE_CLASS, ReopenSel) = "application_should_handle_reopen"
       /\ application_should_handle_reopen(this, ReopenSel, sender, flag)
  /\ UNCHANGED delivered

\* the runtime deallocates an object once, when nothing uses it any more
HostDealloc(this) ==
  /\ Live(this)
  /\ refs[this] = 0
  /\ Imp(APP_DELEGATE_CLASS, "dealloc") = "dealloc"
  /\ dealloc(this)

\* the engine writes a field of the record
EngineWrite(this) ==
  \/ \E v \in ActivationPolicy : WriteAux(this, "activation_policy", v)
  \/ \E v \in BOOLEAN : WriteAux(this, "create_default_menu", v)
  \/ \E v \in BOOLEAN : WriteAux(this, "activate_ignoring_other_apps", v)

Next ==
  \/ Deref(MainThread)
  \/ Initializer(MainThread)
  \/ \E this \in Inst : new(this)
  \/ \E this \in Inst : HostDealloc(this)
  \/ \E this \in Inst : get_aux_state_mut(this)
  \/ \E this \in Inst : EngineWrite(this)
  \/ \E this \in Inst : DropRefMut(this)
  \/ \E this \in Inst, sel \in {DidFinishSel, WillTerminateSel, BecomeActiveSel} :
       HostNotify(this, sel)
  \/ HostUrlEvent
  \/ HostReopen
  \/ HostReturn

Spec == Init /\ [][Next]_vars

\* several threads race for the lazy static while the delivery thread
\* creates and releases delegates
NextRace ==
  \/ \E t \in Threads : Deref(t)
  \/ \E t \in Threads : Initializer(t)
  \/ \E t \in Threads : Wake(t)
  \/ \E this \in Inst : new(this)
  \/ \E this \in Inst : HostDealloc(this)

SpecRace == Init /\ [][NextRace]_vars

\* dealloc sent to an object by a caller that does not keep the once-only
\* contract of the hook
AnyDealloc(this) ==
  /\ refs[this] = 0
  /\ Imp(APP_DELEGATE_CLASS, "dealloc") = "dealloc"
  /\ dealloc(this)

NextMisuse ==
  \/ Deref(MainThread)
  \/ Initializer(MainThread)
  \/ \E this \in Inst : new(this)
  \/ \E this \in Inst : AnyDealloc(this)
  \/ \E this \in Inst, sel \in {DidFinishSel, WillTerminateSel, BecomeActiveSel} :
       HostNotify(this, sel)
  \/ HostReturn

SpecMisuse == Init /\ [][NextMisuse]_vars

\* the host delivers will-terminate once more after it has delivered it
HostTerminateAgain(this) ==
  /\ delivered[WillTerminateSel] >= 1
  /\ delivered[WillTerminateSel] < MaxTerminate
  /\ Notify(this, WillTerminateSel)

\* the host tells the delegate the application becomes active before the
\* launch has finished
HostBecomeActiveEarly(this) ==
  /\ delivered[DidFinishSel] = 0
  /\ Notify(this, BecomeActiveSel)

\* a host that repeats will-terminate and announces activation at any time
NextRedeliver ==
  \/ Next
  \/ \E this \in Inst : HostTerminateAgain(this)
  \/ \E this \in Inst : HostBecomeActiveEarly(this)

SpecRedeliver == Init /\ [][NextRedeliver]_vars

----------------------------------------------------------------------------
(* Properties *)

\* C1: under the host's ordering guarantees AppState::launched and
\* AppState::exit are called as often as the launch-finished and
\* will-terminate notifications have been delivered, in the very step that
\* delivers them and in no other: launched at most once (exactly once as soon
\* as the launch notification is delivered), exit at most once and only
\* after launched.
C1_LifecycleForwarding ==
  /\ launchedCalls = delivered[DidFinishSel]
  /\ exitCalls = delivered[WillTerminateSel]
  /\ launchedCalls <= 1
  /\ exitCalls <= 1
  /\ exitCalls = 1 => launchedCalls = 1
  /\ call.op = "did_finish_launching" => launchedCalls = 1 /\ exitCalls = 0
  /\ call.op = "application_will_terminate" => launchedCalls = 1 /\ exitCalls = 1

\* both notifications have been delivered, the second just now
C1_Witness ==
  /\ delivered[DidFinishSel] = 1
  /\ delivered[WillTerminateSel] = 1
  /\ call.op = "application_will_terminate"

\* C2: after new and a single dealloc with nothing in between, the box
\* allocated for the object has been freed exactly once and no block is left
\* owned by it; and a second dealloc on the same object ends the process
\* (abort or panic) instead of freeing again or carrying on.
C2_DeallocOnceDoubleDetected ==
  /\ (\A j \in Inst : deallocCalls[j] <= 1) =>
       \A i \in Inst :
         deallocCalls[i] = 1 =>
           /\ released[i] = 1
           /\ \A a \in Addr : ~(heap[a].allocated /\ heap[a].owner = i)
  /\ \A i \in Inst : deallocCalls[i] >= 2 => ~Running

\* C3: a record read through the accessor of a live object whose record has
\* not been written holds the documented defaults, whatever happened to other
\* objects before.
C3_DefaultsBeforeMutation ==
  \A i \in Inst :
    (Live(i) /\ ~mutated[i]) =>
      /\ heap[auxState[i]].allocated
      /\ heap[auxState[i]].value.activation_policy = "Regular"
      /\ heap[auxState[i]].value.create_default_menu = TRUE
      /\ heap[auxState[i]].value.activate_ignoring_other_apps = TRUE

\* the engine holds a RefMut on the untouched record of the second object
\* after it has changed the record of the first
C3_Witness ==
  /\ nAlloc = 2
  /\ mutated[1]
  /\ Live(2)
  /\ ~mutated[2]
  /\ refs[2] = 1

\* the RefMut handles outstanding on the cell at address a
HandlesOn(a) == {i \in Inst : i <= nAlloc /\ auxState[i] = a /\ refs[i] > 0}

\* C4: no cell ever has two RefMut handles outstanding, and a call of
\* get_aux_state_mut on an object whose record is already mutably borrowed
\* panics and hands out nothing.
C4_NoAliasedBorrow ==
  /\ [](\A i \in Inst : refs[i] <= 1)
  /\ [](\A a \in Addr : Cardinality(HandlesOn(a)) <= 1)
  /\ [][\A i \in Inst :
          (refs[i] > 0 /\ get_aux_state_mut(i)) =>
            /\ pc'[MainThread] = "panic_borrow"
            /\ refs' = refs]_vars

\* a second get_aux_state_mut, made before any notification was delivered,
\* has panicked; the first handle is still the only one
C4_Witness ==
  /\ pc[MainThread] = "panic_borrow"
  /\ delivered[DidFinishSel] = 0
  /\ \E i \in Inst : refs[i] = 1 /\ heap[auxState[i]].borrow = -1

\* C5: application_handle_apple_event calls handle_apple_event exactly once,
\* with the receiver, selector, event and reply it was given, returns the
\* handler's answer as it is, and leaves the lifecycle and the counts of
\* AppState::launched and AppState::exit calls alone.
C5_AppleEventPassThrough ==
  /\ [](call.op = "application_handle_apple_event" =>
          /\ Len(call.passed) = 1
          /\ call.passed[1] = call.recv
          /\ Len(call.handled) = 1
          /\ call.ret = call.handled)
  /\ [][call'.op = "application_handle_apple_event" =>
          UNCHANGED <<lifecycle, launchedCalls, exitCalls>>]_vars

\* a URL-open event with different event and reply handles was consumed
C5_Witness ==
  /\ call.op = "application_handle_apple_event"
  /\ call.recv[3] # call.recv[4]
  /\ call.ret[1] = YES

\* C6: application_should_handle_reopen hands the receiver, the sender and
\* the has-visible-windows flag, NO as well as YES, to
\* service_should_handle_reopen in one call, returns the handler's answer as
\* it is, whichever it is, and causes no lifecycle transition.
C6_ReopenPassThrough ==
  /\ [](call.op = "application_should_handle_reopen" =>
          /\ Len(call.passed) = 1
          /\ call.passed[1] = call.recv
          /\ Len(call.handled) = 1
          /\ call.ret = call.handled)
  /\ [][call'.op = "application_should_handle_reopen" =>
          UNCHANGED <<lifecycle, launchedCalls, exitCalls>>]_vars

\* a reopen request with no visible windows was declined
C6_Witness ==
  /\ call.op = "application_should_handle_reopen"
  /\ call.recv[3] = NSApp
  /\ call.recv[4] = NO
  /\ call.ret[1] = NO

\* C7: while the process runs, the lifecycle AppState observes is NotLaunched
\* until the launch-finished notification, Launched from it until the
\* will-terminate notification and Terminated from then on; the box of an
\* object stays allocated, and unreleased, through the notifications until
\* dealloc runs, and after dealloc it has been released exactly once.
C7_LaunchTerminateDealloc ==
  /\ Running =>
       lifecycle = CASE delivered[DidFinishSel] = 0 -> "NotLaunched"
                     [] delivered[WillTerminateSel] = 0 -> "Launched"
                     [] OTHER -> "Terminated"
  /\ \A i \in Inst :
       /\ Live(i) =>
            /\ heap[auxState[i]].allocated
            /\ heap[auxState[i]].owner = i
            /\ released[i] = 0
       /\ Dead(i) =>
            /\ released[i] = 1
            /\ \A a \in Addr : ~(heap[a].allocated /\ heap[a].owner = i)

\* the scenario's last state: one object, launched, terminated, deallocated
C7_Witness ==
  /\ nAlloc = 1
  /\ delivered[DidFinishSel] = 1
  /\ delivered[WillTerminateSel] = 1
  /\ lifecycle = "Terminated"
  /\ Dead(1)
  /\ released[1] = 1
  /\ Running

\* C8: however many threads dereference APP_DELEGATE_CLASS, and however
\* their dereferences interleave, the initializer body is entered at most
\* once, exactly once as soon as a dereference has begun; every dereference
\* that returns yields the one registered class; and the published
\* descriptor never changes afterwards.
C8_RegisteredOnce ==
  /\ [](initRuns <= 1)
  /\ []((\E t \in Threads : pc[t] # "idle" \/ got[t] # NoClass) => initRuns = 1)
  /\ [](\A t \in Threads :
          got[t] # NoClass =>
            /\ got[t] = APP_DELEGATE_CLASS
            /\ got[t].name = "TaoAppDelegate"
            /\ once = "COMPLETE")
  /\ [][APP_DELEGATE_CLASS # NoClass => APP_DELEGATE_CLASS' = APP_DELEGATE_CLASS]_vars

\* every thread has dereferenced the static and holds the class
C8_Witness ==
  /\ \A t \in Threads : got[t] # NoClass /\ pc[t] = "idle"
  /\ initRuns = 1
  /\ nAlloc >= 1

\* C9 as stated: every live object's ivar points at an allocated cell of its
\* own, and no two objects, live or deallocated, hold the same address in
\* their ivars.
C9_NoSharedRecord ==
  /\ \A i \in Inst :
       Live(i) => heap[auxState[i]].allocated /\ heap[auxState[i]].owner = i
  /\ \A i, j \in 1..nAlloc : i # j => auxState[i] # auxState[j]

\* C9, amended: every live object's ivar points at an allocated cell of its
\* own; no two live objects hold the same address in their ivars; and a step
\* that changes the record of a live object is a write through a RefMut
\* obtained on that object and changes the record of no other live object.
C9_NoSharedRecordAmongLive ==
  /\ [](\A i \in Inst :
          Live(i) => heap[auxState[i]].allocated /\ heap[auxState[i]].owner = i)
  /\ [](\A i, j \in Inst : (Live(i) /\ Live(j) /\ i # j) => auxState[i] # auxState[j])
  /\ [][\A i \in Inst :
          (Live(i) /\ Live(i)' /\ heap'[auxState[i]].value # heap[auxState[i]].value) =>
            /\ refs[i] > 0
            /\ mutated'[i]
            /\ \A j \in Inst \ {i} :
                 (Live(j) /\ Live(j)') =>
                   heap'[auxState[j]].value = heap[auxState[j]].value]_vars

\* two live objects, the record of one changed and read through its own
\* accessor, the other's still as allocated
C9_Witness ==
  /\ Live(1)
  /\ Live(2)
  /\ refs[1] = 1
  /\ mutated[1]
  /\ heap[auxState[1]].value # heap[auxState[2]].value

\* C10: the handler table holds at most one entry for the URL-open event
\* (class 0x4755524c, id 0x4755524c): none before the first new, and from
\* then on the object created last, with selector handleEvent:withReplyEvent:.
C10_SingleUrlHandler ==
  /\ nAlloc = 0 => UrlHandlers = {}
  /\ nAlloc > 0 =>
       UrlHandlers = {[eventClass |-> 1196773964, eventID |-> 1196773964,
                       handler |-> nAlloc,
                       selector |-> "handleEvent:withReplyEvent:"]}
  /\ Cardinality(eventHandlers) <= 1

\* a second object has taken the registration over from a first one that is
\* still alive
C10_Witness ==
  /\ nAlloc = 2
  /\ Live(1)
  /\ \E e \in UrlHandlers : e.handler = 2

\* C11: when a class named TaoAppDelegate already exists, the initializer
\* ends in a panic and poisons the Once for good; no class handle is published
\* or returned to any thread, every dereference begun or resumed afterwards
\* panics too, and no delegate object is ever created.
C11_RegistrationFailureFatal ==
  /\ [][\A t \in Threads :
          (pc[t] = "init" /\ "TaoAppDelegate" \in classes /\ pc'[t] # pc[t]) =>
            /\ pc'[t] = "panic_unwrap"
            /\ once' = "POISONED"
            /\ APP_DELEGATE_CLASS' = NoClass]_vars
  /\ [][once = "POISONED" => once' = "POISONED"]_vars
  /\ [](once = "POISONED" =>
          /\ APP_DELEGATE_CLASS = NoClass
          /\ \A t \in Threads : got[t] = NoClass
          /\ \A t \in Threads : pc[t] \in {"idle", "wait", "panic_unwrap", "panic_poisoned"}
          /\ nAlloc = 0
          /\ eventHandlers = {})
  /\ [][\A t \in Threads :
          (once = "POISONED" /\ pc[t] \in {"idle", "wait"} /\ pc'[t] # pc[t]) =>
            pc'[t] = "panic_poisoned"]_vars

\* the initializer panicked on another thread and the delivery thread's own
\* dereference has panicked on the poisoned Once
C11_Witness ==
  /\ once = "POISONED"
  /\ \E t \in Threads \ {MainThread} : pc[t] = "panic_unwrap"
  /\ pc[MainThread] = "panic_poisoned"
  /\ nAlloc = 0

\* C12: the first will-terminate delivery takes the lifecycle from Launched
\* to Terminated; a second delivery calls AppState::exit again and changes
\* nothing the engine can observe: the lifecycle stays Terminated and
\* records, slots, borrows and the handler registration are as they were.
C12_TerminateIdempotent ==
  /\ [][(call'.op = "application_will_terminate" /\ call = NoCall) =>
          /\ exitCalls' = exitCalls + 1
          /\ delivered[WillTerminateSel] = 0 =>
                lifecycle = "Launched" /\ lifecycle' = "Terminated"
          /\ delivered[WillTerminateSel] >= 1 =>
                /\ lifecycle = "Terminated"
                /\ UNCHANGED <<lifecycle, launchedCalls, pc, classVars, objVars, cellVars>>]_vars
  /\ [](delivered[WillTerminateSel] >= 1 => lifecycle = "Terminated")

\* will-terminate has been delivered a second time
C12_Witness ==
  /\ delivered[WillTerminateSel] = 2
  /\ exitCalls = 2
  /\ call.op = "application_will_terminate"
  /\ lifecycle = "Terminated"

\* C13: a will-become-active delivery, in whatever lifecycle state and
\* however often, calls neither AppState::launched nor AppState::exit nor an
\* external handler, and leaves the lifecycle, every record and slot, the
\* borrows and the handler table as they were.
C13_BecomeActiveInert ==
  /\ [][(call'.op = "application_will_become_active" /\ call = NoCall) =>
          /\ call'.passed = <<>>
          /\ call'.handled = <<>>
          /\ call'.ret = <<>>
          /\ UNCHANGED <<lifecycle, launchedCalls, exitCalls, delivered>>
          /\ UNCHANGED <<heap, auxState, eventHandlers, refs, mutated>>
          /\ UNCHANGED <<pc, classVars, nAlloc, deallocCalls, released, nWrites>>]_vars
  /\ [](call.op = "application_will_become_active" => call = Plain(call.op, call.this))

\* the notification reached a delegate before the launch finished, while the
\* engine held a handle on its record
C13_Witness ==
  /\ call.op = "application_will_become_active"
  /\ lifecycle = "NotLaunched"
  /\ refs[call.this] = 1

\* C14: the object registered as URL-open handler is one new has returned;
\* as long as it has not been deallocated its ivar holds the address of an
\* allocated record of its own; and a URL-open event is only ever delivered
\* to an object whose ivar new has already set.
C14_HandlerHasRecord ==
  /\ [](\A e \in UrlHandlers :
          /\ e.handler \in 1..nAlloc
          /\ auxState[e.handler] # NULL
          /\ Live(e.handler) =>
                /\ heap[auxState[e.handler]].allocated
                /\ heap[auxState[e.handler]].owner = e.handler)
  /\ [][(call'.op = "application_handle_apple_event" /\ call = NoCall) =>
          /\ call'.this \in 1..nAlloc
          /\ auxState[call'.this] # NULL
          /\ Live(call'.this) => heap[auxState[call'.this]].allocated]_vars

\* a URL-open event reached the live registered handler before the launch
\* notification
C14_Witness ==
  /\ call.op = "application_handle_apple_event"
  /\ Live(call.this)
  /\ lifecycle = "NotLaunched"
  /\ heap[auxState[call.this]].owner = call.this

\* C15: a write through a RefMut lands in the record of the object the
\* handle was obtained on; from then on, while the object is not deallocated,
\* no step other than a further write changes the record's value: not the
\* drop of the handle, not a forwarder, not a later accessor call, not what
\* happens to other objects.  Once the handle is dropped the record is not
\* borrowed, and an accessor call made then hands out a handle on that same
\* value without panicking.
C15_StateSurvives ==
  /\ [][nWrites' # nWrites =>
          \E i \in Inst :
            /\ Live(i)
            /\ refs[i] > 0
            /\ mutated'[i]
            /\ heap'[auxState[i]].value # heap[auxState[i]].value]_vars
  /\ [][\A i \in Inst :
          (Live(i) /\ Live(i)' /\ nWrites' = nWrites) =>
            /\ auxState'[i] = auxState[i]
            /\ heap'[auxState[i]].value = heap[auxState[i]].value]_vars
  /\ [](\A i \in Inst :
          (Live(i) /\ refs[i] = 0) =>
            heap[auxState[i]].allocated /\ heap[auxState[i]].borrow = 0)
  /\ [][\A i \in Inst :
          (refs[i] = 0 /\ get_aux_state_mut(i)) =>
            /\ pc' = pc
            /\ refs'[i] = 1
            /\ heap'[auxState[i]].borrow = -1
            /\ heap'[auxState[i]].value = heap[auxState[i]].value]_vars

\* the record was changed and the handle dropped; the launch notification
\* then reached the object and the accessor call inside AppState::launched
\* found the changed record, unborrowed
C15_Witness ==
  /\ call.op = "did_finish_launching"
  /\ Running
  /\ Live(call.this)
  /\ mutated[call.this]
  /\ refs[call.this] = 0
  /\ heap[auxState[call.this]].value # NewAuxState

\* C16: a forwarder takes no borrow of any record: its step leaves every
\* RefCell and the engine's handles as they were.  So when the launch
\* notification reaches an object on whose record no handle is outstanding,
\* the accessor call AppState::launched makes on it succeeds and the launch
\* is recorded; and the two service-event forwarders never panic.
C16_ForwardersHoldNoBorrow ==
  /\ [][(call = NoCall /\ call' # NoCall) =>
          /\ heap' = heap
          /\ refs' = refs
          /\ auxState' = auxState]_vars
  /\ [][(call = NoCall /\ call'.op = "did_finish_launching" /\ refs[call'.this] = 0) =>
          /\ heap[auxState[call'.this]].borrow = 0
          /\ pc' = pc
          /\ lifecycle' = "Launched"]_vars
  /\ [][(call = NoCall /\ call'.op \in {"application_handle_apple_event",
                                        "application_should_handle_reopen"}) =>
          pc' = pc]_vars

\* the launch notification was delivered with no handle outstanding and
\* AppState::launched returned normally
C16_Witness ==
  /\ call.op = "did_finish_launching"
  /\ \A i \in Inst : refs[i] = 0
  /\ pc[MainThread] = "idle"
  /\ lifecycle = "Launched"
  /\ launchedCalls = 1

\* C17: a dealloc step leaves the handler table as it was.  So once the
\* registered object has been deallocated and no later new has replaced it,
\* the table still names that object, and a URL-open event dispatched then
\* is handed to it although its record has been reclaimed.
C17_DeallocKeepsRegistration ==
  /\ [][deallocCalls' # deallocCalls => eventHandlers' = eventHandlers]_vars
  /\ [](\A i \in Inst :
          (Dead(i) /\ i = nAlloc) =>
            /\ \E e \in UrlHandlers : e.handler = i
            /\ ~(heap[auxState[i]].allocated /\ heap[auxState[i]].owner = i))
  /\ [][(call = NoCall /\ call'.op = "application_handle_apple_event") =>
          \E e \in UrlHandlers : e.handler = call'.this /\ call'.this = nAlloc]_vars

\* a URL-open event was handed to the registered object after its dealloc
C17_Witness ==
  /\ call.op = "application_handle_apple_event"
  /\ Dead(call.this)
  /\ ~heap[auxState[call.this]].allocated
  /\ Running

\* C18: the ivar of an object changes in one step only, the new that creates
\* the object, which takes it from null to the address of the fresh Box; the
\* accessor, the forwarders and dealloc leave it alone.  Hence the ivar is
\* non-null exactly from allocation onwards, dealloc included, and the
\* object's record is allocated exactly while the object has been created
\* and not deallocated.
C18_SlotWrittenOnce ==
  /\ [][\A i \in Inst :
          auxState'[i] # auxState[i] =>
            /\ auxState[i] = NULL
            /\ nAlloc' = nAlloc + 1
            /\ i = nAlloc'
            /\ heap'[auxState'[i]].allocated
            /\ heap'[auxState'[i]].owner = i]_vars
  /\ [][deallocCalls' # deallocCalls => auxState' = auxState]_vars
  /\ [](\A i \in Inst : auxState[i] # NULL <=> i <= nAlloc)
  /\ [](\A i \in Inst :
          Live(i) <=> \E a \in Addr : heap[a].allocated /\ heap[a].owner = i)
  /\ [](\A i \in Inst :
          Live(i) => heap[auxState[i]].allocated /\ heap[auxState[i]].owner = i)

\* a deallocated object whose ivar still holds the address of its freed record
C18_Witness ==
  /\ Dead(1)
  /\ auxState[1] # NULL
  /\ ~heap[auxState[1]].allocated
  /\ released[1] = 1

====
